---------------------------- MODULE Spec2Model ----------------------------
(***************************************************************************)
(* A model of the FAQ retrieval-augmented-generation service:              *)
(*   rag_core.py   chunking, corpus preload, retrieval, answer assembly    *)
(*   api_server.py the HTTP /ask handler                                   *)
(*   mcp_server.py the MCP tool ask_faq                                    *)
(*                                                                         *)
(* Text is a sequence of one-character strings.  Embedding vectors are     *)
(* two-dimensional integer vectors and cosine similarities are compared    *)
(* exactly (by cross-multiplication); floating-point rounding is not       *)
(* modelled.  Sequences are 1-based: corpus index i of the model is index  *)
(* i-1 of the Python lists.                                                *)
(***************************************************************************)
EXTENDS Integers, Sequences, FiniteSets, TLC

VARIABLES
    _CHUNKS,        \* rag_core._CHUNKS: the chunk texts
    _SOURCES,       \* rag_core._SOURCES: the source filename of each chunk
    _CHUNK_EMBEDS,  \* rag_core._CHUNK_EMBEDS: None or one vector per chunk
    preload,        \* position of _preload()
    call,           \* per caller: the state of its ask_faq_core invocation
    chunker         \* the state of one _chunk_text(text, size) evaluation

vars == <<_CHUNKS, _SOURCES, _CHUNK_EMBEDS, preload, call, chunker>>

\* Python's None and a present value: <<>> and <<x>>
None == <<>>
Some(x) == <<x>>
IsNone(o) == o = <<>>
Val(o) == o[1]

(***************************************************************************)
(* Bounds of the model.                                                    *)
(***************************************************************************)
MaxText == 5        \* longest input text given to _chunk_text
MaxSize == 5        \* largest target size given to _chunk_text
MaxChunks == 3      \* largest corpus of the serving specification
LifeChunks == 1     \* largest corpus of the lifecycle specification
NumCallers == 2     \* concurrent callers of the lifecycle specification

(***************************************************************************)
(* Strings.                                                                *)
(***************************************************************************)
Whitespace == {" ", "\n"}

\* the characters after which the sentence regexp may split: [.!?\n]
SentenceEnd == {".", "!", "?", "\n"}

Alphabet == {"a", ".", " ", "\n"}

RECURSIVE LStrip(_)
LStrip(s) ==
    IF s = <<>> THEN <<>>
    ELSE IF Head(s) \in Whitespace THEN LStrip(Tail(s)) ELSE s

RECURSIVE RStrip(_)
RStrip(s) ==
    IF s = <<>> THEN <<>>
    ELSE IF s[Len(s)] \in Whitespace THEN RStrip(SubSeq(s, 1, Len(s) - 1)) ELSE s

\* str.strip()
Strip(s) == RStrip(LStrip(s))

\* s[i:j] of Python for 0 <= i <= j (0-based, j exclusive, clipped to the end)
Slice(s, i, j) == SubSeq(s, i + 1, IF j > Len(s) THEN Len(s) ELSE j)

\* the first position >= i of text that holds no whitespace (Len+1 if none)
RECURSIVE SkipSpace(_, _)
SkipSpace(text, i) ==
    IF i > Len(text) THEN i
    ELSE IF text[i] \in Whitespace THEN SkipSpace(text, i + 1) ELSE i

\* re.split(r'(?<=[.!?\n])\s+', text): a match starts at the first position
\* that holds whitespace and follows a sentence end, and takes the whole
\* whitespace run from there
RECURSIVE SplitFrom(_, _, _, _)
SplitFrom(text, i, cur, acc) ==
    IF i > Len(text) THEN Append(acc, cur)
    ELSE IF i > 1 /\ text[i - 1] \in SentenceEnd /\ text[i] \in Whitespace
         THEN SplitFrom(text, SkipSpace(text, i), <<>>, Append(acc, cur))
         ELSE SplitFrom(text, i + 1, Append(cur, text[i]), acc)

ReSplit(text) == SplitFrom(text, 1, <<>>, <<>>)

(***************************************************************************)
(* _chunk_text.  The accumulation loop keeps, beside the text of each      *)
(* chunk, the number of sentences it was built from (nsent); the code      *)
(* keeps the text only.                                                    *)
(***************************************************************************)
\* a variant that forgets the joining space
JoinedLenNoSeparator(cur, sentence) == Len(cur) + Len(sentence)

\* len(current_chunk) + len(sentence) + 1
JoinedLen(cur, sentence) == Len(cur) + Len(sentence) + 1

\* one iteration of `for sentence in sentences`; st = [chunks, cur, n]
AccumulateStep(st, raw, size) ==
    LET sentence == Strip(raw) IN
    IF sentence = <<>> THEN st
    ELSE IF st.cur # <<>> /\ JoinedLen(st.cur, sentence) > size
         THEN [chunks |-> Append(st.chunks, [text |-> Strip(st.cur), nsent |-> st.n]),
               cur |-> sentence, n |-> 1]
         ELSE [chunks |-> st.chunks,
               cur |-> IF st.cur # <<>> THEN st.cur \o <<" ">> \o sentence ELSE sentence,
               n |-> st.n + 1]

RECURSIVE AccumulateLoop(_, _, _, _)
AccumulateLoop(st, sentences, i, size) ==
    IF i > Len(sentences) THEN st
    ELSE AccumulateLoop(AccumulateStep(st, sentences[i], size), sentences, i + 1, size)

\* the list `chunks` before the hard-split pass
Accumulate(text, size) ==
    LET st == AccumulateLoop([chunks |-> <<>>, cur |-> <<>>, n |-> 0],
                             ReSplit(text), 1, size)
    IN  IF Strip(st.cur) # <<>>
        THEN Append(st.chunks, [text |-> Strip(st.cur), nsent |-> st.n])
        ELSE st.chunks

\* the chunk fits: len(chunk) <= size * 1.5
Fits(chunk, size) == 2 * Len(chunk) <= 3 * size

\* [chunk[i:i+size].strip() for i in range(0, len(chunk), size)], from offset i
RECURSIVE HardSplit(_, _, _)
HardSplit(chunk, i, size) ==
    IF i >= Len(chunk) THEN <<>>
    ELSE <<Strip(Slice(chunk, i, i + size))>> \o HardSplit(chunk, i + size, size)

RECURSIVE FinalChunks(_, _, _)
FinalChunks(chunks, i, size) ==
    IF i > Len(chunks) THEN <<>>
    ELSE (IF Fits(chunks[i].text, size)
          THEN <<chunks[i].text>>
          ELSE HardSplit(chunks[i].text, 0, size))
         \o FinalChunks(chunks, i + 1, size)

\* [c for c in final_chunks if c]
NonEmpty(seq) == SelectSeq(seq, LAMBDA c : c # <<>>)

\* the list `chunks` at line 97, with the early return of an empty list
ChunksBeforeSplit(text, size) ==
    IF text = <<>> \/ Strip(text) = <<>> THEN <<>>
    ELSE Accumulate(Strip(text), size)

_chunk_text(text, size) ==
    NonEmpty(FinalChunks(ChunksBeforeSplit(text, size), 1, size))

(***************************************************************************)
(* One evaluation of _chunk_text on a text and a target size.              *)
(***************************************************************************)
RECURSIVE Texts(_)
Texts(n) ==
    IF n = 0 THEN {<<>>}
    ELSE Texts(n - 1) \cup {Append(t, c) : t \in {u \in Texts(n - 1) : Len(u) = n - 1}, c \in Alphabet}

ChunkInit ==
    /\ _CHUNKS = <<>> /\ _SOURCES = <<>> /\ _CHUNK_EMBEDS = None
    /\ preload = "start"
    /\ call = <<>>
    /\ \E text \in Texts(MaxText), size \in 1..MaxSize :
          chunker = [pc |-> "start", text |-> text, size |-> size,
                     chunks |-> <<>>, out |-> <<>>]

ChunkText ==
    /\ chunker.pc = "start"
    /\ chunker' = [chunker EXCEPT
                     !.pc = "done",
                     !.chunks = ChunksBeforeSplit(chunker.text, chunker.size),
                     !.out = _chunk_text(chunker.text, chunker.size)]
    /\ UNCHANGED <<_CHUNKS, _SOURCES, _CHUNK_EMBEDS, preload, call>>

ChunkNext == ChunkText

SpecChunk == ChunkInit /\ [][ChunkNext]_vars

(***************************************************************************)
(* Configuration and literals of the code.                                 *)
(***************************************************************************)
TOP_K_DEFAULT == 4      \* rag_core.TOP_K_DEFAULT
TOP_K_MIN == 1          \* the 1 of max(1, min(10, ...))
TOP_K_MAX == 10         \* the 10 of max(1, min(10, ...))
MCP_TOP_K_DEFAULT == 4  \* the 4 of mcp_server.ask_faq
MCP_TOP_K_MAX == 10     \* the 10 of mcp_server.ask_faq
API_TOP_K_DEFAULT == 4  \* the 4 of `body.top_k or 4`
API_TOP_K_GE == 1       \* AskRequest.top_k ge
API_TOP_K_LE == 10      \* AskRequest.top_k le
API_QUESTION_MIN == 1   \* AskRequest.question min_length

Max(a, b) == IF a >= b THEN a ELSE b
Min(a, b) == IF a <= b THEN a ELSE b

(***************************************************************************)
(* Embedding vectors and cosine similarity.                                *)
(***************************************************************************)
Vectors == {<<1, 0>>, <<0, 1>>, <<1, 1>>}

Dot(a, b) == a[1] * b[1] + a[2] * b[2]

\* A similarity dot/sqrt(nsq) is kept as the pair; the 1e-9 added to each norm
\* only keeps the division defined for a zero vector, where the quotient is 0.
Similarity(row, query_vec) ==
    LET nsq == Dot(row, row) * Dot(query_vec, query_vec) IN
    IF nsq = 0 THEN [dot |-> 0, nsq |-> 1]
    ELSE [dot |-> Dot(row, query_vec), nsq |-> nsq]

\* emb_norm @ query_norm: one similarity per row
_cosine_similarity(embeddings, query_vec) ==
    [i \in DOMAIN embeddings |-> Similarity(embeddings[i], query_vec)]

\* s < t as real numbers
SimLess(s, t) ==
    IF s.dot < 0 /\ t.dot >= 0 THEN TRUE
    ELSE IF s.dot >= 0 /\ t.dot < 0 THEN FALSE
    ELSE IF s.dot >= 0 THEN s.dot * s.dot * t.nsq < t.dot * t.dot * s.nsq
    ELSE s.dot * s.dot * t.nsq > t.dot * t.dot * s.nsq

SimEq(s, t) == ~SimLess(s, t) /\ ~SimLess(t, s)

Permutations1(n) ==
    {f \in [1..n -> 1..n] : \A i, j \in 1..n : i # j => f[i] # f[j]}

\* np.argsort(similarities) with the default kind: an ascending order of the
\* indices; the order of equal elements is not specified by the sort
ArgSorts(sims) ==
    {perm \in Permutations1(Len(sims)) :
        \A i, j \in 1..Len(sims) : i < j => ~SimLess(sims[perm[j]], sims[perm[i]])}

Reverse(seq) == [i \in 1..Len(seq) |-> seq[Len(seq) + 1 - i]]

\* a variant that takes the first k of the ascending order
FirstK(order, k) == Reverse(SubSeq(order, 1, Min(k, Len(order))))

\* order[-k:][::-1] for k >= 1
TopIndices(order, k) == Reverse(SubSeq(order, Max(1, Len(order) - k + 1), Len(order)))

(***************************************************************************)
(* Source labels: file names, ordered as Python orders str.                *)
(***************************************************************************)
CodePoint(c) ==
    CASE c = "." -> 46 [] c = "a" -> 97 [] c = "b" -> 98
      [] c = "d" -> 100 [] c = "m" -> 109

RECURSIVE StrLess(_, _)
StrLess(x, y) ==
    IF y = <<>> THEN FALSE
    ELSE IF x = <<>> THEN TRUE
    ELSE IF CodePoint(Head(x)) < CodePoint(Head(y)) THEN TRUE
    ELSE IF CodePoint(Head(x)) > CodePoint(Head(y)) THEN FALSE
    ELSE StrLess(Tail(x), Tail(y))

Labels == {<<"a", ".", "m", "d">>, <<"b", ".", "m", "d">>}

Range(seq) == {seq[i] : i \in DOMAIN seq}

\* a variant that keeps the labels in rank order, first occurrence first
RankOrderDistinct(labels) ==
    SelectSeq([i \in DOMAIN labels |->
                  IF \E j \in 1..(i - 1) : labels[j] = labels[i] THEN <<>> ELSE labels[i]],
              LAMBDA x : x # <<>>)

\* sorted(set(labels))
RECURSIVE SortedSet(_)
SortedSet(set) ==
    IF set = {} THEN <<>>
    ELSE LET least == CHOOSE x \in set : \A y \in set : ~StrLess(y, x)
         IN  <<least>> \o SortedSet(set \ {least})

SortedDistinct(labels) == SortedSet(Range(labels))

(***************************************************************************)
(* Exceptions and results.                                                 *)
(***************************************************************************)
NoResult == [kind |-> "none"]
Raise(cls, msg) == [kind |-> "raise", cls |-> cls, msg |-> msg]
Return(answer, sources) == [kind |-> "return", answer |-> answer, sources |-> sources]

\* isinstance(exc, ValueError) for the exception classes of the model
IsValueError(cls) == cls = "ValueError"

QUESTION_REQUIRED == "question is required"
NOT_INITIALIZED == "RAG system not initialized. Embeddings not loaded."
MCP_QUESTION_REQUIRED == "question is required and cannot be empty"
INTERNAL_SERVER_ERROR == "Internal server error"
EMBED_FAILED == "embeddings request failed"
GENERATION_FAILED == "chat completion request failed"

(***************************************************************************)
(* ask_faq_core up to its first service call (lines 237-246).              *)
(***************************************************************************)
\* max(1, min(10, top_k or TOP_K_DEFAULT))
ClampTopK(top_k) ==
    LET given == IF IsNone(top_k) \/ Val(top_k) = 0 THEN TOP_K_DEFAULT ELSE Val(top_k)
    IN  Max(TOP_K_MIN, Min(TOP_K_MAX, given))

\* a variant that does not strip
StrippedQuestionNoStrip(question) == IF IsNone(question) THEN <<>> ELSE Val(question)

\* (question or "").strip()
StrippedQuestion(question) == Strip(IF IsNone(question) THEN <<>> ELSE Val(question))

\* a variant that only looks at the chunk list
NotInitializedChunksOnly(embeds, chunks) == Len(chunks) = 0

\* _CHUNK_EMBEDS is None or len(_CHUNKS) == 0
NotInitialized(embeds, chunks) == IsNone(embeds) \/ Len(chunks) = 0

\* the state of the call when ask_faq_core reaches line 249, or has raised
CoreEnter(question, top_k, embeds, chunks) ==
    LET q == StrippedQuestion(question) IN
    IF q = <<>>
    THEN [pc |-> "done", q |-> q, k |-> 0, result |-> Raise("ValueError", QUESTION_REQUIRED)]
    ELSE IF NotInitialized(embeds, chunks)
    THEN [pc |-> "done", q |-> q, k |-> ClampTopK(top_k),
          result |-> Raise("RuntimeError", NOT_INITIALIZED)]
    ELSE [pc |-> "embed", q |-> q, k |-> ClampTopK(top_k), result |-> NoResult]

(***************************************************************************)
(* The front ends: what each passes to ask_faq_core, and what it makes of  *)
(* the outcome.                                                            *)
(***************************************************************************)
\* mcp_server.ask_faq, lines 52-53
McpTopK(top_k) ==
    IF IsNone(top_k) \/ Val(top_k) <= 0 \/ Val(top_k) > MCP_TOP_K_MAX
    THEN Some(MCP_TOP_K_DEFAULT) ELSE top_k

\* api_server.ask: body.top_k or 4
ApiTopK(top_k) ==
    IF IsNone(top_k) \/ Val(top_k) = 0 THEN Some(API_TOP_K_DEFAULT) ELSE top_k

\* AskRequest accepts the body
ApiBodyValid(question, top_k) ==
    /\ ~IsNone(question) /\ Len(Val(question)) >= API_QUESTION_MIN
    /\ (IsNone(top_k) \/ (Val(top_k) >= API_TOP_K_GE /\ Val(top_k) <= API_TOP_K_LE))

\* what the front end does before ask_faq_core: the core's arguments, or the
\* front end's own outcome
FrontEndArgs(fe, question, top_k) ==
    CASE fe = "core" ->
           [core |-> TRUE, question |-> question, top_k |-> top_k, result |-> NoResult]
      [] fe = "mcp" ->
           IF StrippedQuestion(question) = <<>>
           THEN [core |-> FALSE, question |-> question, top_k |-> top_k,
                 result |-> Raise("ValueError", MCP_QUESTION_REQUIRED)]
           ELSE [core |-> TRUE, question |-> Some(StrippedQuestion(question)),
                 top_k |-> McpTopK(top_k), result |-> NoResult]
      [] fe = "http" ->
           IF ~ApiBodyValid(question, top_k)
           THEN [core |-> FALSE, question |-> question, top_k |-> top_k,
                 result |-> NoResult]
           ELSE [core |-> TRUE, question |-> Some(Strip(Val(question))),
                 top_k |-> ApiTopK(top_k), result |-> NoResult]

\* a variant of the handler that reports the exception's text
HttpResponseLeaky(result) ==
    IF result.kind = "return"
    THEN [status |-> 200, detail |-> "", sources |-> result.sources]
    ELSE IF IsValueError(result.cls)
    THEN [status |-> 400, detail |-> result.msg, sources |-> <<>>]
    ELSE [status |-> 500, detail |-> result.msg, sources |-> <<>>]

\* api_server.ask, lines 100-123: the response for the core's outcome
HttpResponse(result) ==
    IF result.kind = "return"
    THEN [status |-> 200, detail |-> "", sources |-> result.sources]
    ELSE IF IsValueError(result.cls)
    THEN [status |-> 400, detail |-> result.msg, sources |-> <<>>]
    ELSE [status |-> 500, detail |-> INTERNAL_SERVER_ERROR, sources |-> <<>>]

\* the request validation of FastAPI, before the handler runs
HTTP_UNPROCESSABLE == [status |-> 422, detail |-> "validation", sources |-> <<>>]

NoResponse == [status |-> 0, detail |-> "", sources |-> <<>>]

\* what the caller of the front end gets
Respond(fe, core, result) ==
    IF fe = "http" THEN (IF core THEN HttpResponse(result) ELSE HTTP_UNPROCESSABLE)
    ELSE NoResponse

(***************************************************************************)
(* One invocation of a front end by a caller.  early records that the      *)
(* invocation started before _preload had completed; embed_calls and       *)
(* gen_calls count the service requests the invocation has made.           *)
(***************************************************************************)
IdleCall ==
    [pc |-> "idle", fe |-> "", question |-> None, top_k |-> None,
     core |-> FALSE, core_question |-> None, core_top_k |-> None,
     q |-> <<>>, k |-> 0, query_emb |-> <<>>, top_indices |-> <<>>, top_sources |-> <<>>,
     embed_calls |-> 0, gen_calls |-> 0, early |-> FALSE,
     result |-> NoResult, response |-> NoResponse]

store == <<_CHUNKS, _SOURCES, _CHUNK_EMBEDS>>

\* the front end is invoked and runs ask_faq_core up to line 249
Invoke(p, fe, question, top_k) ==
    /\ call[p].pc = "idle"
    /\ LET args == FrontEndArgs(fe, question, top_k)
           st == IF args.core
                 THEN CoreEnter(args.question, args.top_k, _CHUNK_EMBEDS, _CHUNKS)
                 ELSE [pc |-> "done", q |-> <<>>, k |-> 0, result |-> args.result]
       IN  call' = [call EXCEPT ![p] =
                     [IdleCall EXCEPT
                        !.pc = st.pc, !.fe = fe, !.question = question, !.top_k = top_k,
                        !.core = args.core,
                        !.core_question = IF args.core THEN args.question ELSE None,
                        !.core_top_k = IF args.core THEN args.top_k ELSE None,
                        !.q = st.q, !.k = st.k, !.early = (preload # "ready"),
                        !.result = st.result,
                        !.response = IF st.pc = "done"
                                     THEN Respond(fe, args.core, st.result)
                                     ELSE NoResponse]]
    /\ UNCHANGED <<store, preload, chunker>>

\* what the embedding service answers to one query: a vector, or a failure
EmbedOutcomes ==
    {[ok |-> TRUE, vec |-> v] : v \in Vectors} \cup {[ok |-> FALSE, vec |-> <<>>]}

\* query_emb = _embed_query(q), line 249
EmbedQuery(p) ==
    /\ call[p].pc = "embed"
    /\ \E r \in EmbedOutcomes :
         call' = [call EXCEPT ![p] =
                   IF r.ok
                   THEN [@ EXCEPT !.pc = "rank", !.query_emb = r.vec,
                                  !.embed_calls = @ + 1]
                   ELSE [@ EXCEPT !.pc = "done", !.embed_calls = @ + 1,
                                  !.result = Raise("APIError", EMBED_FAILED),
                                  !.response = Respond(call[p].fe, TRUE,
                                                       Raise("APIError", EMBED_FAILED))]]
    /\ UNCHANGED <<store, preload, chunker>>

\* a variant of lines 252-260 that writes the labelled context back into the
\* chunk list
RankInPlace(p) ==
    /\ call[p].pc = "rank"
    /\ \E order \in ArgSorts(_cosine_similarity(Val(_CHUNK_EMBEDS), call[p].query_emb)) :
         LET top == TopIndices(order, call[p].k) IN
         call' = [call EXCEPT ![p] =
                   [@ EXCEPT !.pc = "generate", !.top_indices = top,
                             !.top_sources = [i \in DOMAIN top |-> _SOURCES[top[i]]]]]
    /\ _CHUNKS' = [i \in DOMAIN _CHUNKS |->
                     IF \E j \in DOMAIN call'[p].top_indices : call'[p].top_indices[j] = i
                     THEN <<"[">> \o _CHUNKS[i] ELSE _CHUNKS[i]]
    /\ UNCHANGED <<_SOURCES, _CHUNK_EMBEDS, preload, chunker>>

\* similarities, top_indices and top_sources, lines 252-260
Rank(p) ==
    /\ call[p].pc = "rank"
    /\ \E order \in ArgSorts(_cosine_similarity(Val(_CHUNK_EMBEDS), call[p].query_emb)) :
         LET top == TopIndices(order, call[p].k) IN
         call' = [call EXCEPT ![p] =
                   [@ EXCEPT !.pc = "generate", !.top_indices = top,
                             !.top_sources = [i \in DOMAIN top |-> _SOURCES[top[i]]]]]
    /\ UNCHANGED <<store, preload, chunker>>

\* answer = _generate_answer(...) and the returned dict, lines 263-271
Generate(p) ==
    /\ call[p].pc = "generate"
    /\ \E ok \in BOOLEAN :
         LET result == IF ok THEN Return("answer", SortedDistinct(call[p].top_sources))
                       ELSE Raise("APIError", GENERATION_FAILED)
         IN  call' = [call EXCEPT ![p] =
                       [@ EXCEPT !.pc = "done", !.gen_calls = @ + 1, !.result = result,
                                 !.response = Respond(call[p].fe, TRUE, result)]]
    /\ UNCHANGED <<store, preload, chunker>>

\* the caller takes the outcome; it may invoke again
Finish(p) ==
    /\ call[p].pc = "done"
    /\ call' = [call EXCEPT ![p] = IdleCall]
    /\ UNCHANGED <<store, preload, chunker>>

(***************************************************************************)
(* _preload and the corpora it can build.                                  *)
(***************************************************************************)
ChunkTextOf(i) == <<"a", ".">>

\* source labels of n chunks: files are read in sorted order
SortedLabelSeqs(n) ==
    {src \in [1..n -> Labels] : \A i, j \in 1..n : i < j => ~StrLess(src[j], src[i])}

\* _CHUNKS, _SOURCES = _load_and_chunk_faqs(FAQ_DIR), line 286; the directory
\* may be missing or hold no .md file
PreloadLoad ==
    /\ preload = "start"
    /\ \E ok \in BOOLEAN :
         IF ok
         THEN \E n \in 0..LifeChunks : \E src \in SortedLabelSeqs(n) :
                /\ _CHUNKS' = [i \in 1..n |-> ChunkTextOf(i)]
                /\ _SOURCES' = src
                /\ preload' = "loaded"
         ELSE /\ UNCHANGED <<_CHUNKS, _SOURCES>>
              /\ preload' = "failed"
    /\ UNCHANGED <<_CHUNK_EMBEDS, call, chunker>>

\* _CHUNK_EMBEDS = _embed_texts(_CHUNKS), line 290; the request may fail, and
\* no request is made for an empty list
PreloadEmbed ==
    /\ preload = "loaded"
    /\ \E ok \in BOOLEAN :
         IF ok \/ Len(_CHUNKS) = 0
         THEN \E embeds \in [1..Len(_CHUNKS) -> Vectors] :
                /\ _CHUNK_EMBEDS' = Some(embeds)
                /\ preload' = "ready"
         ELSE /\ UNCHANGED _CHUNK_EMBEDS
              /\ preload' = "failed"
    /\ UNCHANGED <<_CHUNKS, _SOURCES, call, chunker>>

(***************************************************************************)
(* The lifecycle: the module is imported while callers invoke              *)
(* ask_faq_core concurrently.                                              *)
(***************************************************************************)
\* the (question, top_k) arguments the callers pass
LifeArgs ==
    {<<None, None>>, <<Some(<<>>), Some(11)>>, <<Some(<<" ">>), Some(-1)>>,
     <<Some(<<"a">>), Some(2)>>}

ChunkerOff == [pc |-> "off", text |-> <<>>, size |-> 1, chunks |-> <<>>, out |-> <<>>]

Init ==
    /\ _CHUNKS = <<>> /\ _SOURCES = <<>> /\ _CHUNK_EMBEDS = None
    /\ preload = "start"
    /\ call = [p \in 1..NumCallers |-> IdleCall]
    /\ chunker = ChunkerOff

AskLife(p) ==
    \E args \in LifeArgs : Invoke(p, "core", args[1], args[2])

Next ==
    \/ PreloadLoad
    \/ PreloadEmbed
    \/ \E p \in DOMAIN call : AskLife(p)
    \/ \E p \in DOMAIN call : EmbedQuery(p)
    \/ \E p \in DOMAIN call : Rank(p)
    \/ \E p \in DOMAIN call : Generate(p)
    \/ \E p \in DOMAIN call : Finish(p)

Spec == Init /\ [][Next]_vars

(***************************************************************************)
(* Serving: the module has been imported, one caller uses the front ends.  *)
(***************************************************************************)
ServeFrontEnds == {"core", "mcp", "http"}
ServeQuestions == {None, Some(<<>>), Some(<<" ">>), Some(<<"a">>)}
ServeTopKs == {None, Some(-1), Some(0), Some(1), Some(2), Some(3), Some(10), Some(11)}

ServeInit ==
    /\ \E n \in 0..MaxChunks : \E src \in SortedLabelSeqs(n), embeds \in [1..n -> Vectors] :
         /\ _CHUNKS = [i \in 1..n |-> ChunkTextOf(i)]
         /\ _SOURCES = src
         /\ _CHUNK_EMBEDS = Some(embeds)
    /\ preload = "ready"
    /\ call = [p \in {1} |-> IdleCall]
    /\ chunker = ChunkerOff

AskServe(p) ==
    \E fe \in ServeFrontEnds, question \in ServeQuestions, top_k \in ServeTopKs :
        Invoke(p, fe, question, top_k)

ServeNext ==
    \/ \E p \in DOMAIN call : AskServe(p)
    \/ \E p \in DOMAIN call : EmbedQuery(p)
    \/ \E p \in DOMAIN call : Rank(p)
    \/ \E p \in DOMAIN call : Generate(p)
    \/ \E p \in DOMAIN call : Finish(p)

SpecServe == ServeInit /\ [][ServeNext]_vars

(***************************************************************************)
(* Properties.                                                             *)
(***************************************************************************)
\* the question is None, empty or whitespace only
Blank(question) == IsNone(question) \/ Strip(Val(question)) = <<>>

\* ask_faq_core has passed its checks and the invocation of caller p retrieves
Retrieving(p) ==
    call[p].pc \in {"embed", "rank", "generate"} \/ call[p].embed_calls > 0

\* the invocation of caller p has passed lines 252-260
Ranked(p) ==
    call[p].pc = "generate" \/ (call[p].pc = "done" /\ call[p].gen_calls > 0)

\* the similarities the invocation of caller p ranks by
SimsOf(p) == _cosine_similarity(Val(_CHUNK_EMBEDS), call[p].query_emb)

\* C1: the retrieved chunks are in descending order of similarity, chunks of
\* equal similarity are ranked by ascending corpus index, and of two chunks of
\* equal similarity the one of lower index is the one selected.
C1_TiesByAscendingIndex ==
    \A p \in DOMAIN call :
        Ranked(p) =>
            LET top == call[p].top_indices
                sims == SimsOf(p)
                chosen == Range(top)
            IN  /\ \A i, j \in DOMAIN top :
                      i < j => /\ ~SimLess(sims[top[i]], sims[top[j]])
                               /\ (SimEq(sims[top[i]], sims[top[j]]) => top[i] < top[j])
                /\ \A i \in chosen : \A j \in DOMAIN sims \ chosen :
                      SimEq(sims[i], sims[j]) => i < j

\* C2: a direct ask_faq_core call requests a number of chunks within 1..10:
\* top_k in 1..10 as given, top_k above 10 as 10, and top_k that is 0,
\* negative or None as the default 4.
C2_TopKNormalized ==
    \A p \in DOMAIN call :
        (call[p].fe = "core" /\ Retrieving(p)) =>
            LET t == call[p].top_k
                k == call[p].k
            IN  /\ k >= 1 /\ k <= 10
                /\ (~IsNone(t) /\ Val(t) >= 1 /\ Val(t) <= 10) => k = Val(t)
                /\ (~IsNone(t) /\ Val(t) > 10) => k = 10
                /\ (IsNone(t) \/ Val(t) <= 0) => k = 4

\* C3: an invocation with a non-empty question that started before _preload
\* had completed has raised the not-initialized error and has made no service
\* request; and an answer is only ever returned from a completely built index.
C3_NotInitializedBeforePreload ==
    \A p \in DOMAIN call :
        /\ (call[p].pc # "idle" /\ call[p].early /\ ~Blank(call[p].question)) =>
              /\ call[p].pc = "done"
              /\ call[p].result.kind = "raise"
              /\ call[p].result.cls = "RuntimeError"
              /\ call[p].result.msg = "RAG system not initialized. Embeddings not loaded."
              /\ call[p].embed_calls = 0
              /\ call[p].gen_calls = 0
        /\ (call[p].pc \in {"embed", "rank", "generate"} \/ call[p].result.kind = "return") =>
              /\ preload = "ready"
              /\ ~IsNone(_CHUNK_EMBEDS)
              /\ Len(Val(_CHUNK_EMBEDS)) = Len(_CHUNKS)
              /\ Len(_SOURCES) = Len(_CHUNKS)

\* C3 happens: the embedding request of _preload failed after the chunks were
\* loaded, and a caller's non-empty question was refused
C3_Witness ==
    \E p \in DOMAIN call :
        /\ preload = "failed" /\ Len(_CHUNKS) > 0 /\ IsNone(_CHUNK_EMBEDS)
        /\ call[p].pc = "done" /\ call[p].early /\ ~Blank(call[p].question)
        /\ call[p].result.kind = "raise" /\ call[p].result.cls = "RuntimeError"

\* C4: a step that starts ask_faq_core with a question that is None, empty or
\* whitespace only ends it at once with ValueError, with no service request
\* made, and leaves the chunk list, the labels and the embeddings unchanged.
C4_BlankQuestionRejected ==
    [][\A p \in DOMAIN call :
          (call[p].pc = "idle" /\ call'[p].pc # "idle" /\ call'[p].core
             /\ Blank(call'[p].core_question)) =>
              /\ call'[p].pc = "done"
              /\ call'[p].result.kind = "raise"
              /\ call'[p].result.cls = "ValueError"
              /\ call'[p].embed_calls = 0
              /\ call'[p].gen_calls = 0
              /\ UNCHANGED store]_vars

\* C4 happens: a whitespace-only question with a negative top_k was refused
\* while the index was built
C4_Witness ==
    \E p \in DOMAIN call :
        /\ call[p].pc = "done" /\ call[p].core
        /\ call[p].core_question = Some(<<" ">>) /\ call[p].top_k = Some(-1)
        /\ call[p].result.kind = "raise" /\ call[p].result.cls = "ValueError"
        /\ call[p].embed_calls = 0 /\ call[p].gen_calls = 0
        /\ ~call[p].early /\ Len(_CHUNKS) > 0

C7_ExactlyMinKBest ==
    \A p \in DOMAIN call :
        Ranked(p) =>
            LET top == call[p].top_indices
                sims == SimsOf(p)
                n == Len(_CHUNKS)
                chosen == Range(top)
            IN  /\ n >= 1 /\ call[p].k >= 1 /\ call[p].k <= 10
                /\ Len(top) = (IF call[p].k <= n THEN call[p].k ELSE n)
                /\ chosen \subseteq 1..n
                /\ Cardinality(chosen) = Len(top)
                /\ \A i \in chosen : \A j \in (1..n) \ chosen : ~SimLess(sims[i], sims[j])

\* C7 happens: two of three chunks are retrieved and the one left out is
\* strictly less similar than both
C7_Witness ==
    \E p \in DOMAIN call :
        /\ Ranked(p) /\ Len(_CHUNKS) = 3 /\ call[p].k = 2
        /\ Len(call[p].top_indices) = 2
        /\ \E j \in 1..3 : \A i \in Range(call[p].top_indices) :
              SimLess(SimsOf(p)[j], SimsOf(p)[i])

\* C8: every chunk _chunk_text returns is non-empty after trimming and at most
\* 1.5 x size long; a chunk built from several sentences is at most size long;
\* a chunk longer than 1.5 x size before the split is a single sentence, none
\* of the returned chunks is it, and each of its slices of size characters is
\* returned trimmed (unless empty); every returned chunk longer than size is a
\* whole single sentence.
C8_ChunkBounds ==
    (chunker.pc = "done") =>
        LET out == chunker.out
            chunks == chunker.chunks
            size == chunker.size
        IN  /\ \A i \in DOMAIN out :
                  /\ Strip(out[i]) # <<>>
                  /\ 2 * Len(out[i]) <= 3 * size
            /\ \A i \in DOMAIN chunks :
                  chunks[i].nsent > 1 => Len(chunks[i].text) <= size
            /\ \A i \in DOMAIN chunks :
                  (2 * Len(chunks[i].text) > 3 * size) =>
                      /\ chunks[i].nsent = 1
                      /\ \A o \in 0..(Len(chunks[i].text) - 1) :
                            (o % size = 0) =>
                                LET piece == Strip(Slice(chunks[i].text, o, o + size)) IN
                                /\ Len(piece) <= size
                                /\ piece # <<>> => piece \in Range(out)
            /\ \A i \in DOMAIN out :
                  (Len(out[i]) > size) =>
                      \E j \in DOMAIN chunks : chunks[j].text = out[i] /\ chunks[j].nsent = 1

\* C8 happens: a sentence longer than 1.5 x size was split into several slices
C8_Witness ==
    /\ chunker.pc = "done"
    /\ \E i \in DOMAIN chunker.chunks :
          2 * Len(chunker.chunks[i].text) > 3 * chunker.size
    /\ Len(chunker.out) >= 3

\* C9: once _preload has completed no step changes the chunk list, the labels
\* or the embeddings, and whatever the other callers do, what a caller has
\* retrieved is a best min(k, N) of the store ranked by its own query vector,
\* labelled from the store, for the k of its own top_k.
C9_StoreReadOnly ==
    /\ [][(preload = "ready") => UNCHANGED store]_vars
    /\ [](\A p \in DOMAIN call :
            Ranked(p) =>
                LET top == call[p].top_indices
                    sims == SimsOf(p)
                    n == Len(_CHUNKS)
                    chosen == Range(top)
                    given == call[p].core_top_k
                IN  /\ call[p].k = Max(1, Min(10, IF IsNone(given) \/ Val(given) = 0
                                                   THEN 4 ELSE Val(given)))
                    /\ Len(top) = Min(call[p].k, n)
                    /\ call[p].top_sources = [i \in DOMAIN top |-> _SOURCES[top[i]]]
                    /\ \A i \in chosen : \A j \in (1..n) \ chosen :
                          ~SimLess(sims[i], sims[j])
                    /\ \A i, j \in DOMAIN top :
                          i < j => ~SimLess(sims[top[i]], sims[top[j]]))

\* C9 happens: one caller has its answer while another, which ranked the same
\* store by another query vector, is still generating
C9_Witness ==
    \E p, r \in DOMAIN call :
        /\ p # r
        /\ call[p].pc = "done" /\ call[p].result.kind = "return"
        /\ call[r].pc = "generate"
        /\ call[p].query_emb # call[r].query_emb
        /\ Len(_CHUNKS) > 0

\* C10: the MCP tool ask_faq retrieves with the effective k a direct
\* ask_faq_core call with the same top_k retrieves with.
C10_McpSameEffectiveK ==
    \A p \in DOMAIN call :
        (call[p].fe = "mcp" /\ Retrieving(p)) =>
            call[p].k = ClampTopK(call[p].top_k)

=============================================================================
